---- MODULE Spec2Model ----
(***************************************************************************)
(* A model of sync_security_group.py: one run of main() resolves the       *)
(* desired HTTP allow-list, finds the target security group, reconciles    *)
(* the group's ingress rules through the EC2 API, rewrites the YAML        *)
(* configuration and commits it with git.  The EC2 security groups, the    *)
(* YAML file and the git work tree outlive a run; a run's locals do not.   *)
(***************************************************************************)
EXTENDS Integers, Sequences, FiniteSets, TLC

(* ------------------------------------------------------------------ *)
(* Bounds of the model                                                 *)
(* ------------------------------------------------------------------ *)

\* Number of consecutive invocations of the script that are explored.
MaxRuns == 2

(* ------------------------------------------------------------------ *)
(* Program constants                                                   *)
(* ------------------------------------------------------------------ *)

SSH_PORT == 22
HTTP_PORT == 80
\* Ports the script has no business with (an HTTPS rule of the group).
OtherPorts == {443}

ALL_ADDRESSES == "0.0.0.0/0"
GROUP_NAME == "security-group"

(* ------------------------------------------------------------------ *)
(* Strings: str.strip, str.splitlines, the order sorted() uses         *)
(* ------------------------------------------------------------------ *)

\* The characters that occur in the modelled texts, in code-point order
\* (LF = 10, space = 32, '.' = 46, '/' = 47, '0'..'9' = 48..57).
CharOrder == "\n ./0123456789"

CharRank(c) == CHOOSE i \in 1..Len(CharOrder) : SubSeq(CharOrder, i, i) = c

IsSpace(c) == c \in {" ", "\n"}

RECURSIVE LStrip(_)
LStrip(s) ==
    IF Len(s) > 0 /\ IsSpace(SubSeq(s, 1, 1))
    THEN LStrip(SubSeq(s, 2, Len(s)))
    ELSE s

RECURSIVE RStrip(_)
RStrip(s) ==
    IF Len(s) > 0 /\ IsSpace(SubSeq(s, Len(s), Len(s)))
    THEN RStrip(SubSeq(s, 1, Len(s) - 1))
    ELSE s

\* str.strip() with no argument: whitespace is removed at both ends.
Strip(s) == RStrip(LStrip(s))

\* str.splitlines(): the text cut at every line feed; a final line feed
\* opens no further (empty) line.
RECURSIVE SplitFrom(_, _, _)
SplitFrom(s, i, cur) ==
    IF i > Len(s)
    THEN IF cur = "" THEN <<>> ELSE <<cur>>
    ELSE IF SubSeq(s, i, i) = "\n"
         THEN <<cur>> \o SplitFrom(s, i + 1, "")
         ELSE SplitFrom(s, i + 1, cur \o SubSeq(s, i, i))

SplitLines(s) == SplitFrom(s, 1, "")

\* Python's < on str: code point by code point, a proper prefix first.
RECURSIVE StrLess(_, _)
StrLess(s, t) ==
    IF Len(t) = 0 THEN FALSE
    ELSE IF Len(s) = 0 THEN TRUE
    ELSE LET a == CharRank(SubSeq(s, 1, 1))
             b == CharRank(SubSeq(t, 1, 1))
         IN IF a # b THEN a < b
            ELSE StrLess(SubSeq(s, 2, Len(s)), SubSeq(t, 2, Len(t)))

\* set(list)
ToSet(q) == {q[i] : i \in 1..Len(q)}

\* A variant of Sorted that lists the set in descending order.
RECURSIVE SortedDescending(_)
SortedDescending(S) ==
    IF S = {} THEN <<>>
    ELSE LET m == CHOOSE x \in S : \A y \in S \ {x} : StrLess(y, x)
         IN <<m>> \o SortedDescending(S \ {m})

\* sorted(list(S)) for a set S of strings.
RECURSIVE Sorted(_)
Sorted(S) ==
    IF S = {} THEN <<>>
    ELSE LET m == CHOOSE x \in S : \A y \in S \ {x} : StrLess(x, y)
         IN <<m>> \o Sorted(S \ {m})

\* [expr(x) for x in q if cond(x)] specialised to line 46.
RECURSIVE StripNonEmpty(_)
StripNonEmpty(q) ==
    IF q = <<>> THEN <<>>
    ELSE (IF Strip(Head(q)) # "" THEN <<Strip(Head(q))>> ELSE <<>>)
         \o StripNonEmpty(Tail(q))

(* ------------------------------------------------------------------ *)
(* The world outside the script                                        *)
(* ------------------------------------------------------------------ *)

\* Bodies checkip.amazonaws.com may answer with (the address and a line feed).
IpBodies == {"198.51.100.7\n", "203.0.113.5\n"}

\* Bodies www.cloudflare.com/ips-v4 may answer with: one range per line; a
\* repeated range, padding and an empty line are what lines 46 and 218 absorb.
RangeBodies == {"173.245.48.0/20\n",
               "173.245.48.0/20\n\n 103.21.244.0/22\n173.245.48.0/20"}

\* CIDRs found in the groups before the first run.
STALE == "192.0.2.0/24"
NARROW == "10.0.0.0/8"
HOME1 == "198.51.100.7/32"
RANGE1 == "173.245.48.0/20"

Groups == {"sg-1", "sg-2"}
Protocols == {"tcp", "udp"}

\* A rule of a group is identified by protocol and port (FromPort = ToPort);
\* the group maps each rule to its IPv4 CIDR set, {} meaning "no such rule".
Keys == Protocols \X ({SSH_PORT, HTTP_PORT} \cup OtherPorts)

NoRules == [k \in Keys |-> {}]

\* IpPermissions as DescribeSecurityGroups reports them: one entry per
\* protocol and port range that has at least one CIDR.
Permissions(rules) ==
    {[IpProtocol |-> k[1], FromPort |-> k[2], ToPort |-> k[2], IpRanges |-> rules[k]] :
        k \in {kk \in Keys : rules[kk] # {}}}

\* AuthorizeSecurityGroupIngress: the request may fail on its own account
\* (network, credentials, throttling, rule quota); a request naming a rule
\* that exists is refused as a whole with InvalidPermission.Duplicate;
\* otherwise every CIDR is added.
AuthorizeOutcomes(rules, key, cidrs) ==
    {[ok |-> FALSE, err |-> "RequestError", rules |-> rules]}
    \cup IF cidrs \cap rules[key] # {}
         THEN {[ok |-> FALSE, err |-> "InvalidPermission.Duplicate", rules |-> rules]}
         ELSE {[ok |-> TRUE, err |-> "", rules |-> [rules EXCEPT ![key] = @ \cup cidrs]]}

\* RevokeSecurityGroupIngress: as above; a request naming a rule that does
\* not exist is refused with InvalidPermission.NotFound in a default VPC and
\* is answered without error (the rules that do exist removed, the others
\* listed as unknown) in any other VPC.
RevokeOutcomes(rules, key, cidrs) ==
    {[ok |-> FALSE, err |-> "RequestError", rules |-> rules]}
    \cup {[ok |-> TRUE, err |-> "", rules |-> [rules EXCEPT ![key] = @ \ cidrs]]}
    \cup IF cidrs \subseteq rules[key]
         THEN {}
         ELSE {[ok |-> FALSE, err |-> "InvalidPermission.NotFound", rules |-> rules]}

(* ------------------------------------------------------------------ *)
(* State                                                               *)
(* ------------------------------------------------------------------ *)

VARIABLES
    fw,                  \* EC2: group id -> rule -> CIDR set
    named,               \* EC2: the groups whose GroupName is 'security-group'
    yamlFile,            \* security-group.yaml: "missing" or the document
    git,                 \* the work tree: [dirty, ahead]
    runs,                \* invocations of the script started so far
    hist,                \* one summary per finished invocation
    pc,                  \* where main() stands
    home_ip,             \* main: home_ip
    cf_ips,              \* main: cf_ips
    target_http_cidrs,   \* main: target_http_cidrs (a sorted list)
    name_response,       \* get_security_group_id: the groups the name lookup returned
    rule_response,       \* get_security_group_id: the groups the fallback lookup returned
    sg_id,               \* main: sg_id
    current_permissions, \* update_security_group: current_permissions
    synced,              \* update_security_group returned True
    config,              \* main: config, the document as loaded and edited
    calls,               \* the mutation calls this run has made, in order
    steps,               \* the external steps this run has attempted, in order
    exit_code,           \* the process's exit status, "running" until it ends
    fw0,                 \* the groups' rules when this run started
    yaml0                \* security-group.yaml when this run started

vars == <<fw, named, yamlFile, git, runs, hist, pc, home_ip, cf_ips,
          target_http_cidrs, name_response, rule_response, sg_id, current_permissions, synced, config, calls,
          steps, exit_code, fw0, yaml0>>

world == <<fw, named, yamlFile, git>>
locals == <<home_ip, cf_ips, target_http_cidrs, name_response, rule_response,
            sg_id, current_permissions, synced, config>>

NONE == "none"

\* The YAML document: the keys the script touches (rules, rules.http,
\* rules.ssh) and one it does not (name).  An empty file loads as {} (line
\* 57), a document without rules.
NoDoc == [name |-> "", hasRules |-> FALSE, http |-> <<>>, hasSsh |-> FALSE, ssh |-> <<>>]

(* ------------------------------------------------------------------ *)
(* update_security_group: what it computes from the rules it read      *)
(* ------------------------------------------------------------------ *)

\* A variant of SshOpen that takes any CIDR on port 22 for an open port.
SshOpenAny(perms) ==
    \E perm \in perms :
        /\ perm.FromPort = SSH_PORT
        /\ perm.ToPort = SSH_PORT
        /\ perm.IpRanges # {}

\* Lines 122-128: some permission on port 22 lists 0.0.0.0/0.
SshOpen(perms) ==
    \E perm \in perms :
        /\ perm.FromPort = SSH_PORT
        /\ perm.ToPort = SSH_PORT
        /\ ALL_ADDRESSES \in perm.IpRanges

\* Lines 144-148: the CIDRs of every permission on port 80.
CurrentHttpCidrs(perms) ==
    UNION {perm.IpRanges : perm \in {q \in perms : q.FromPort = HTTP_PORT /\ q.ToPort = HTTP_PORT}}

\* A variant of ToRevoke that clears the rule instead of diffing it.
ToRevokeAll(perms, allowed_cidrs) == CurrentHttpCidrs(perms)

\* A variant of ToRevoke with the wrong set operator.
ToRevokeKept(perms, allowed_cidrs) == CurrentHttpCidrs(perms) \cap ToSet(allowed_cidrs)

\* A variant of ToAuthorize that authorizes the whole desired list.
ToAuthorizeAll(perms, allowed_cidrs) == ToSet(allowed_cidrs)

\* Lines 150-154.
ToRevoke(perms, allowed_cidrs) == CurrentHttpCidrs(perms) \ ToSet(allowed_cidrs)
ToAuthorize(perms, allowed_cidrs) == ToSet(allowed_cidrs) \ CurrentHttpCidrs(perms)

\* The rule the SSH add names (lines 134-139) and the rule both HTTP calls
\* name (lines 160-165, 174-179).
\* A variant of HttpRule with the wrong port constant.
HttpRuleOnSshPort == <<"tcp", SSH_PORT>>

SshRule == <<"tcp", SSH_PORT>>
HttpRule == <<"tcp", HTTP_PORT>>

\* Where update_security_group goes next: each "if" of lines 130, 156 and
\* 168 either makes its call or is passed over; after the last one the
\* function returns True and main() goes on to load the YAML file.
\* A variant of AfterRevoke that goes back to the revoke while the reading
\* still shows stale CIDRs.
AfterRevokeRepeat(perms, allowed_cidrs) ==
    IF ToRevoke(perms, allowed_cidrs) # {} THEN "http_revoke"
    ELSE IF ToAuthorize(perms, allowed_cidrs) # {} THEN "http_authorize" ELSE "load_yaml"

AfterRevoke(perms, allowed_cidrs) ==
    IF ToAuthorize(perms, allowed_cidrs) # {} THEN "http_authorize" ELSE "load_yaml"

AfterSsh(perms, allowed_cidrs) ==
    IF ToRevoke(perms, allowed_cidrs) # {} THEN "http_revoke"
    ELSE AfterRevoke(perms, allowed_cidrs)

AfterRead(perms, allowed_cidrs) ==
    IF ~SshOpen(perms) THEN "ssh_add" ELSE AfterSsh(perms, allowed_cidrs)

(* ------------------------------------------------------------------ *)
(* Bookkeeping shared by the steps                                     *)
(* ------------------------------------------------------------------ *)

Running(at) == pc = at /\ exit_code = "running"

Log(step, ok) == steps' = Append(steps, [step |-> step, ok |-> ok])

\* sys.exit(1), or an exception nobody catches: the process ends with status 1.
Abort == pc' = "exited" /\ exit_code' = "1"

\* main() returns: the process ends with status 0.
Complete == pc' = "exited" /\ exit_code' = "0"

\* What is remembered of a finished run.
RunSummary ==
    [desired |-> ToSet(target_http_cidrs), sg |-> sg_id, synced |-> synced]

(* ------------------------------------------------------------------ *)
(* main(), step by step                                                *)
(* ------------------------------------------------------------------ *)

\* The script is invoked (again).
StartRun ==
    /\ pc \in {"idle", "exited"}
    /\ runs < MaxRuns
    /\ runs' = runs + 1
    /\ hist' = IF pc = "exited" THEN Append(hist, RunSummary) ELSE hist
    /\ pc' = "get_current_ip"
    /\ exit_code' = "running"
    /\ home_ip' = NONE
    /\ cf_ips' = <<>>
    /\ target_http_cidrs' = <<>>
    /\ name_response' = <<>>
    /\ rule_response' = <<>>
    /\ sg_id' = NONE
    /\ current_permissions' = {}
    /\ synced' = FALSE
    /\ config' = NoDoc
    /\ calls' = <<>>
    /\ steps' = <<>>
    /\ fw0' = fw
    /\ yaml0' = yamlFile
    /\ UNCHANGED world

\* Lines 31-39 and 211.
GetCurrentIp ==
    /\ Running("get_current_ip")
    /\ \/ \E body \in IpBodies :
            /\ home_ip' = Strip(body) \o "/32"
            /\ Log("get_current_ip", TRUE)
            /\ pc' = "get_cloudflare_ips"
            /\ UNCHANGED exit_code
       \/ /\ Log("get_current_ip", FALSE)
          /\ Abort
          /\ UNCHANGED home_ip
    /\ UNCHANGED <<world, runs, hist, cf_ips, target_http_cidrs, sg_id,
                   current_permissions, synced, config, calls, fw0, yaml0,
                   name_response, rule_response>>

\* A variant of GetCloudflareIps that goes on with no ranges when the fetch
\* fails.
GetCloudflareIpsUnchecked ==
    /\ Running("get_cloudflare_ips")
    /\ \/ \E body \in RangeBodies :
            /\ cf_ips' = StripNonEmpty(SplitLines(body))
            /\ Log("get_cloudflare_ips", TRUE)
       \/ /\ cf_ips' = <<>>
          /\ Log("get_cloudflare_ips", FALSE)
    /\ target_http_cidrs' = Sorted(ToSet(<<home_ip>> \o cf_ips'))
    /\ pc' = "find_by_name"
    /\ UNCHANGED <<exit_code, world, runs, hist, home_ip, sg_id, current_permissions,
                   synced, config, calls, fw0, yaml0,
                   name_response, rule_response>>

\* Lines 41-49, 214 and 218.
GetCloudflareIps ==
    /\ Running("get_cloudflare_ips")
    /\ \/ \E body \in RangeBodies :
            /\ cf_ips' = StripNonEmpty(SplitLines(body))
            /\ target_http_cidrs' = Sorted(ToSet(<<home_ip>> \o cf_ips'))
            /\ Log("get_cloudflare_ips", TRUE)
            /\ pc' = "find_by_name"
            /\ UNCHANGED exit_code
       \/ /\ Log("get_cloudflare_ips", FALSE)
          /\ Abort
          /\ UNCHANGED <<cf_ips, target_http_cidrs>>
    /\ UNCHANGED <<world, runs, hist, home_ip, sg_id, current_permissions,
                   synced, config, calls, fw0, yaml0,
                   name_response, rule_response>>

\* DescribeSecurityGroups with the group-name filter (lines 79-81).
NameMatches == named

\* DescribeSecurityGroups with the three ip-permission filters (lines 91-97).
\* EC2 matches each filter against the group's rules on its own: the group
\* needs a rule from port 22, a rule to port 22 and a rule for 0.0.0.0/0,
\* not necessarily the same rule.
SshRuleMatches ==
    {g \in Groups :
        /\ \E k \in Keys : k[2] = SSH_PORT /\ fw[g][k] # {}
        /\ \E k \in Keys : ALL_ADDRESSES \in fw[g][k]}

\* EC2 promises no order of the groups in an answer: the SecurityGroups
\* list is the matching groups in any order.
Orderings(S) == {q \in [1..Cardinality(S) -> S] : ToSet(q) = S}

\* A variant of FirstOf that takes the last group of the answer.
LastOf(response) == response[Len(response)]

\* response['SecurityGroups'][0] (lines 83 and 100).
FirstOf(response) == response[1]

\* Lines 77-83 and 106-112.
FindByName ==
    /\ Running("find_by_name")
    /\ \/ \E response \in Orderings(NameMatches) :
            /\ name_response' = response
            /\ Log("find_by_name", TRUE)
            /\ IF response # <<>>
               THEN sg_id' = FirstOf(response) /\ pc' = "describe"
               ELSE pc' = "find_by_ssh_rule" /\ UNCHANGED sg_id
            /\ UNCHANGED exit_code
       \/ /\ Log("find_by_name", FALSE)
          /\ Abort
          /\ UNCHANGED <<sg_id, name_response>>
    /\ UNCHANGED <<world, runs, hist, home_ip, cf_ips, target_http_cidrs,
                   current_permissions, synced, config, calls, fw0, yaml0,
                   rule_response>>

\* Lines 88-112.
FindBySshRule ==
    /\ Running("find_by_ssh_rule")
    /\ \/ \E response \in Orderings(SshRuleMatches) :
            /\ rule_response' = response
            /\ Log("find_by_ssh_rule", TRUE)
            /\ IF response # <<>>
               THEN sg_id' = FirstOf(response) /\ pc' = "describe" /\ UNCHANGED exit_code
               ELSE Abort /\ UNCHANGED sg_id
       \/ /\ Log("find_by_ssh_rule", FALSE)
          /\ Abort
          /\ UNCHANGED <<sg_id, rule_response>>
    /\ UNCHANGED <<world, runs, hist, home_ip, cf_ips, target_http_cidrs,
                   current_permissions, synced, config, calls, fw0, yaml0,
                   name_response>>

\* A variant of DescribeRules that goes on with no rules when the read fails.
DescribeRulesUnchecked ==
    /\ Running("describe")
    /\ \/ /\ current_permissions' = Permissions(fw[sg_id])
          /\ Log("describe", TRUE)
       \/ /\ current_permissions' = {}
          /\ Log("describe", FALSE)
    /\ pc' = AfterRead(current_permissions', target_http_cidrs)
    /\ synced' = (pc' = "load_yaml")
    /\ UNCHANGED <<exit_code, world, runs, hist, home_ip, cf_ips, target_http_cidrs,
                   sg_id, config, calls, fw0, yaml0,
                   name_response, rule_response>>

\* Lines 116-128 and 144-154: the rules are read once; everything the
\* function decides later is decided from this reading.
DescribeRules ==
    /\ Running("describe")
    /\ \/ /\ current_permissions' = Permissions(fw[sg_id])
          /\ Log("describe", TRUE)
          /\ pc' = AfterRead(current_permissions', target_http_cidrs)
          /\ synced' = (pc' = "load_yaml")
          /\ UNCHANGED exit_code
       \/ /\ Log("describe", FALSE)
          /\ Abort
          /\ UNCHANGED <<current_permissions, synced>>
    /\ UNCHANGED <<world, runs, hist, home_ip, cf_ips, target_http_cidrs, sg_id,
                   config, calls, fw0, yaml0,
                   name_response, rule_response>>

\* A variant of Mutate that goes on to `next` whether or not the call raised.
MutateUnchecked(step, op, key, cidrs, out, next) ==
    /\ fw' = [fw EXCEPT ![sg_id] = out.rules]
    /\ calls' = Append(calls, [op |-> op, key |-> key, cidrs |-> cidrs,
                               ok |-> out.ok, err |-> out.err])
    /\ Log(step, out.ok)
    /\ pc' = next
    /\ synced' = (next = "load_yaml")
    /\ UNCHANGED <<exit_code, named, yamlFile, git, runs, hist, home_ip, cf_ips,
                   target_http_cidrs, sg_id, current_permissions, config, fw0, yaml0,
                   name_response, rule_response>>

\* One call of the mutation sink and what follows it: the call is recorded,
\* the group takes the rules the provider answers with, and the function
\* goes on to `next` if the call returned and to line 183-185 if it raised.
Mutate(step, op, key, cidrs, out, next) ==
    /\ fw' = [fw EXCEPT ![sg_id] = out.rules]
    /\ calls' = Append(calls, [op |-> op, key |-> key, cidrs |-> cidrs,
                               ok |-> out.ok, err |-> out.err])
    /\ Log(step, out.ok)
    /\ IF out.ok
       THEN /\ pc' = next
            /\ synced' = (next = "load_yaml")
            /\ UNCHANGED exit_code
       ELSE /\ Abort
            /\ UNCHANGED synced
    /\ UNCHANGED <<named, yamlFile, git, runs, hist, home_ip, cf_ips,
                   target_http_cidrs, sg_id, current_permissions, config, fw0, yaml0,
                   name_response, rule_response>>

\* Lines 130-140.
SshAdd ==
    /\ Running("ssh_add")
    /\ \E out \in AuthorizeOutcomes(fw[sg_id], SshRule, {ALL_ADDRESSES}) :
          Mutate("ssh_add", "authorize", SshRule, {ALL_ADDRESSES}, out,
                 AfterSsh(current_permissions, target_http_cidrs))

\* Lines 156-166.
HttpRevoke ==
    /\ Running("http_revoke")
    /\ LET to_revoke == ToRevoke(current_permissions, target_http_cidrs)
       IN \E out \in RevokeOutcomes(fw[sg_id], HttpRule, to_revoke) :
            Mutate("http_revoke", "revoke", HttpRule, to_revoke, out,
                   AfterRevoke(current_permissions, target_http_cidrs))

\* Lines 168-182.
HttpAuthorize ==
    /\ Running("http_authorize")
    /\ LET to_authorize == ToAuthorize(current_permissions, target_http_cidrs)
       IN \E out \in AuthorizeOutcomes(fw[sg_id], HttpRule, to_authorize) :
            Mutate("http_authorize", "authorize", HttpRule, to_authorize, out,
                   "load_yaml")

\* A variant of LoadYaml that starts a new document when there is none to
\* load.
LoadYamlOrCreate ==
    /\ Running("load_yaml")
    /\ LET loaded == IF yamlFile.exists /\ yamlFile.doc.hasRules
                     THEN yamlFile.doc
                     ELSE [NoDoc EXCEPT !.hasRules = TRUE]
       IN config' = [loaded EXCEPT
                        !.http = target_http_cidrs,
                        !.hasSsh = TRUE,
                        !.ssh = IF loaded.hasSsh THEN @ ELSE <<ALL_ADDRESSES>>]
    /\ Log("load_yaml", TRUE)
    /\ pc' = "save_yaml"
    /\ UNCHANGED <<exit_code, world, runs, hist, home_ip, cf_ips, target_http_cidrs,
                   sg_id, current_permissions, synced, calls, fw0, yaml0,
                   name_response, rule_response>>

\* Lines 51-57 and 242-246: load the document, set rules.http, default
\* rules.ssh.  A missing file is sys.exit(1); a document without 'rules'
\* makes config['rules'] raise KeyError, which nothing catches.
LoadYaml ==
    /\ Running("load_yaml")
    /\ IF yamlFile.exists /\ yamlFile.doc.hasRules
       THEN /\ config' = [yamlFile.doc EXCEPT
                            !.http = target_http_cidrs,
                            !.hasSsh = TRUE,
                            !.ssh = IF yamlFile.doc.hasSsh THEN @ ELSE <<ALL_ADDRESSES>>]
            /\ Log("load_yaml", TRUE)
            /\ pc' = "save_yaml"
            /\ UNCHANGED exit_code
       ELSE /\ Log("load_yaml", FALSE)
            /\ Abort
            /\ UNCHANGED config
    /\ UNCHANGED <<world, runs, hist, home_ip, cf_ips, target_http_cidrs, sg_id,
                   current_permissions, synced, calls, fw0, yaml0,
                   name_response, rule_response>>

\* Lines 59-62 and 248: the file is rewritten, or open() raises OSError,
\* which nothing catches.  The work tree is dirty once the file differs from
\* what it held.
SaveYaml ==
    /\ Running("save_yaml")
    /\ \/ /\ yamlFile' = [exists |-> TRUE, doc |-> config]
          /\ git' = [git EXCEPT !.dirty = @ \/ config # yamlFile.doc]
          /\ Log("save_yaml", TRUE)
          /\ pc' = "git_status"
          /\ UNCHANGED exit_code
       \/ /\ Log("save_yaml", FALSE)
          /\ Abort
          /\ UNCHANGED <<yamlFile, git>>
    /\ UNCHANGED <<fw, named, runs, hist, locals, calls, fw0, yaml0>>

\* How a git command can end: exit status 0; a non-zero exit status, which
\* check_output/check_call raise as CalledProcessError; or the command not
\* being run at all (no git executable, fork failure), which subprocess
\* raises as OSError.
GitResults == {"ok", "CalledProcessError", "OSError"}

\* A variant of GitFailed that warns and goes on with the next git command.
GitFailedContinue(step, result) ==
    /\ result # "ok"
    /\ Log(step, FALSE)
    /\ IF step = "git_push"
       THEN Complete
       ELSE /\ pc' = (CASE step = "git_status" -> "git_pull"
                        [] step = "git_pull" -> "git_add"
                        [] step = "git_add" -> "git_commit"
                        [] OTHER -> "git_push")
            /\ UNCHANGED exit_code
    /\ UNCHANGED git

\* Lines 201-203 catch CalledProcessError only: the function returns and
\* main() finishes (lines 253-256); any other exception ends the process.
GitFailed(step, result) ==
    /\ result # "ok"
    /\ Log(step, FALSE)
    /\ IF result = "CalledProcessError" THEN Complete ELSE Abort
    /\ UNCHANGED git

\* Lines 191-194.
GitStatus ==
    /\ Running("git_status")
    /\ \E result \in GitResults :
          \/ /\ result = "ok"
             /\ Log("git_status", TRUE)
             /\ IF git.dirty
                THEN pc' = "git_pull" /\ UNCHANGED exit_code
                ELSE Complete
             /\ UNCHANGED git
          \/ GitFailed("git_status", result)
    /\ UNCHANGED <<fw, named, yamlFile, runs, hist, locals, calls, fw0, yaml0>>

\* Line 197.
GitPull ==
    /\ Running("git_pull")
    /\ \E result \in GitResults :
          \/ /\ result = "ok"
             /\ Log("git_pull", TRUE)
             /\ pc' = "git_add"
             /\ UNCHANGED <<exit_code, git>>
          \/ GitFailed("git_pull", result)
    /\ UNCHANGED <<fw, named, yamlFile, runs, hist, locals, calls, fw0, yaml0>>

\* Line 198.
GitAdd ==
    /\ Running("git_add")
    /\ \E result \in GitResults :
          \/ /\ result = "ok"
             /\ Log("git_add", TRUE)
             /\ pc' = "git_commit"
             /\ UNCHANGED <<exit_code, git>>
          \/ GitFailed("git_add", result)
    /\ UNCHANGED <<fw, named, yamlFile, runs, hist, locals, calls, fw0, yaml0>>

\* Line 199.
GitCommit ==
    /\ Running("git_commit")
    /\ \E result \in GitResults :
          \/ /\ result = "ok"
             /\ Log("git_commit", TRUE)
             /\ git' = [dirty |-> FALSE, ahead |-> TRUE]
             /\ pc' = "git_push"
             /\ UNCHANGED exit_code
          \/ GitFailed("git_commit", result)
    /\ UNCHANGED <<fw, named, yamlFile, runs, hist, locals, calls, fw0, yaml0>>

\* Lines 200 and 253-256.
GitPush ==
    /\ Running("git_push")
    /\ \E result \in GitResults :
          \/ /\ result = "ok"
             /\ Log("git_push", TRUE)
             /\ git' = [git EXCEPT !.ahead = FALSE]
             /\ Complete
          \/ GitFailed("git_push", result)
    /\ UNCHANGED <<fw, named, yamlFile, runs, hist, locals, calls, fw0, yaml0>>

(* ------------------------------------------------------------------ *)
(* Specifications                                                      *)
(* ------------------------------------------------------------------ *)

Rules(tcp22, udp22, tcp80, udp80, tcpOther) ==
    [k \in Keys |->
        IF k = <<"tcp", SSH_PORT>> THEN tcp22
        ELSE IF k = <<"udp", SSH_PORT>> THEN udp22
        ELSE IF k = <<"tcp", HTTP_PORT>> THEN tcp80
        ELSE IF k = <<"udp", HTTP_PORT>> THEN udp80
        ELSE IF k[1] = "tcp" THEN tcpOther
        ELSE {}]

\* A document as the repository ships it: rules.http stale, no rules.ssh.
ShippedDoc ==
    [name |-> GROUP_NAME, hasRules |-> TRUE, http |-> <<STALE>>,
     hasSsh |-> FALSE, ssh |-> <<>>]

\* The rule sets sg-1 may start with.
InitRules ==
    {Rules(tcp22, udp22, tcp80, udp80, tcpOther) :
        tcp22 \in {{}, {ALL_ADDRESSES}, {NARROW}},
        udp22 \in {{}, {ALL_ADDRESSES}},
        tcp80 \in {{}, {HOME1}, {STALE, HOME1}},
        udp80 \in {{}, {STALE}, {STALE, RANGE1}},
        tcpOther \in {{STALE}}}

InitLocals ==
    /\ runs = 0
    /\ hist = <<>>
    /\ pc = "idle"
    /\ exit_code = "running"
    /\ home_ip = NONE
    /\ cf_ips = <<>>
    /\ target_http_cidrs = <<>>
    /\ name_response = <<>>
    /\ rule_response = <<>>
    /\ sg_id = NONE
    /\ current_permissions = {}
    /\ synced = FALSE
    /\ config = NoDoc
    /\ calls = <<>>
    /\ steps = <<>>
    /\ fw0 = fw
    /\ yaml0 = yamlFile

Init ==
    /\ \E r1 \in InitRules :
          fw = [g \in Groups |-> IF g = "sg-1" THEN r1 ELSE NoRules]
    /\ named \in {{"sg-1"}, {}}
    /\ yamlFile \in {[exists |-> FALSE, doc |-> NoDoc],
                      [exists |-> TRUE, doc |-> ShippedDoc]}
    /\ git = [dirty |-> FALSE, ahead |-> FALSE]
    /\ InitLocals

\* A wider choice of groups and documents over a narrower choice of rules:
\* either group, both or neither may carry the name and may have SSH open;
\* the file may be empty, as shipped, or edited by hand.
EditedDoc ==
    [name |-> "edited", hasRules |-> TRUE, http |-> <<HOME1, STALE>>,
     hasSsh |-> TRUE, ssh |-> <<NARROW>>]

InitWide ==
    /\ \E r1 \in {Rules({ALL_ADDRESSES}, {}, {STALE}, {}, {STALE}),
                   Rules({NARROW}, {}, {HOME1}, {}, {STALE})},
          r2 \in {NoRules,
                  Rules({ALL_ADDRESSES, NARROW}, {}, {STALE, RANGE1}, {}, {})} :
          fw = [g \in Groups |-> IF g = "sg-1" THEN r1 ELSE r2]
    /\ named \in SUBSET Groups
    /\ yamlFile \in {[exists |-> TRUE, doc |-> NoDoc],
                      [exists |-> TRUE, doc |-> ShippedDoc],
                      [exists |-> TRUE, doc |-> EditedDoc]}
    /\ git = [dirty |-> FALSE, ahead |-> FALSE]
    /\ InitLocals

Next ==
    \/ StartRun
    \/ GetCurrentIp
    \/ GetCloudflareIps
    \/ FindByName
    \/ FindBySshRule
    \/ DescribeRules
    \/ SshAdd
    \/ HttpRevoke
    \/ HttpAuthorize
    \/ LoadYaml
    \/ SaveYaml
    \/ GitStatus
    \/ GitPull
    \/ GitAdd
    \/ GitCommit
    \/ GitPush

Spec == Init /\ [][Next]_vars

SpecWide == InitWide /\ [][Next]_vars

(* ------------------------------------------------------------------ *)
(* Vocabulary of the properties                                        *)
(* ------------------------------------------------------------------ *)

\* The desired set of the run under way.
Desired == ToSet(target_http_cidrs)

\* The HTTP-port CIDR set and the SSH check, as a fresh read of the group
\* would show them to update_security_group.
HttpPortCidrs(rules) == CurrentHttpCidrs(Permissions(rules))
SshPortOpen(rules) == SshOpen(Permissions(rules))

\* This run has read the group's rules.
ReadDone == \E i \in 1..Len(steps) : steps[i].step = "describe" /\ steps[i].ok

StepFailed(name) == \E i \in 1..Len(steps) : steps[i].step = name /\ ~steps[i].ok

Attempted(name) == \E i \in 1..Len(steps) : steps[i].step = name

MutationSteps == {"ssh_add", "http_revoke", "http_authorize"}
GitSteps == {"git_status", "git_pull", "git_add", "git_commit", "git_push"}

IsSshAdd(c) == c.op = "authorize" /\ c.key[2] = SSH_PORT
IsHttpRevoke(c) == c.op = "revoke" /\ c.key[2] = HTTP_PORT
IsHttpAuthorize(c) == c.op = "authorize" /\ c.key[2] = HTTP_PORT

Count(P(_)) == Cardinality({i \in 1..Len(calls) : P(calls[i])})

\* The rules a group has after the calls that succeeded, applied in order.
RECURSIVE ApplyCalls(_, _)
ApplyCalls(rules, cs) ==
    IF cs = <<>> THEN rules
    ELSE LET c == Head(cs)
             next == IF ~c.ok THEN rules
                     ELSE IF c.op = "authorize"
                          THEN [rules EXCEPT ![c.key] = @ \cup c.cidrs]
                          ELSE [rules EXCEPT ![c.key] = @ \ c.cidrs]
         IN ApplyCalls(next, Tail(cs))

(* ------------------------------------------------------------------ *)
(* C1  Convergence                                                     *)
(* ------------------------------------------------------------------ *)

\* C1: once update_security_group has returned (every mutation call it
\* emitted succeeded), the group's HTTP-port CIDR set equals the desired
\* set.  Stated for both readings of "HTTP-port CIDR set" at once: the
\* CIDRs of all port-80 permissions, which is what the function reads, or
\* those of the tcp/80 rule, which is what it writes.
C1_Convergence ==
    synced =>
        \/ HttpPortCidrs(fw[sg_id]) = Desired
        \/ fw[sg_id][HttpRule] = Desired

(* ------------------------------------------------------------------ *)
(* C2  No-op run                                                       *)
(* ------------------------------------------------------------------ *)

\* The state read at the start of the run already is the desired state.
AlreadySynced ==
    /\ ReadDone
    /\ CurrentHttpCidrs(current_permissions) = Desired
    /\ SshOpen(current_permissions)

\* C2: when the rules read at the start of the run show the HTTP-port CIDR
\* set equal to the desired set and an SSH-port entry with 0.0.0.0/0, the run
\* makes no mutation call and update_security_group returns True.
C2_NoOp == AlreadySynced => (calls = <<>> /\ synced)

\* A no-op run that went all the way to exit status 0.
C2_Witness ==
    /\ AlreadySynced
    /\ calls = <<>>
    /\ pc = "exited"
    /\ exit_code = "0"

(* ------------------------------------------------------------------ *)
(* C3  Recoverability by re-run                                        *)
(* ------------------------------------------------------------------ *)

\* The n-th last finished run was aborted before update_security_group
\* returned, with the desired set of the run under way.
AbortedBefore(n) ==
    /\ Len(hist) >= n
    /\ ~hist[Len(hist) - n + 1].synced
    /\ hist[Len(hist) - n + 1].desired = Desired

\* The last finished run was a clean one on the same group with the same
\* desired set.
CleanBefore ==
    /\ Len(hist) >= 1
    /\ hist[Len(hist)].synced
    /\ hist[Len(hist)].desired = Desired
    /\ hist[Len(hist)].sg = sg_id

\* C3: a run with the same desired set that follows an aborted run and in
\* which every call succeeds ends with the HTTP-port CIDR set equal to the
\* desired set (under either reading, see C1) and the SSH port open to
\* 0.0.0.0/0; the run after that one makes no mutation call.
C3_Recoverable ==
    /\ (synced /\ AbortedBefore(1)) =>
            /\ \/ HttpPortCidrs(fw[sg_id]) = Desired
               \/ fw[sg_id][HttpRule] = Desired
            /\ SshPortOpen(fw[sg_id])
    /\ (ReadDone /\ CleanBefore /\ AbortedBefore(2)) => calls = <<>>

(* ------------------------------------------------------------------ *)
(* C4  Monotonic SSH                                                   *)
(* ------------------------------------------------------------------ *)

\* C4: no revoke call names port 22, and during and after a run every
\* port-22 rule of every group still holds each CIDR it held when the run
\* started (so a port open to 0.0.0.0/0 stays open).
C4_MonotonicSsh ==
    /\ \A i \in 1..Len(calls) : calls[i].op = "revoke" => calls[i].key[2] # SSH_PORT
    /\ \A g \in Groups, k \in Keys : k[2] = SSH_PORT => fw0[g][k] \subseteq fw[g][k]
    /\ \A g \in Groups : SshPortOpen(fw0[g]) => SshPortOpen(fw[g])

\* SSH was open, a revoke went through, and the run then aborted.
C4_Witness ==
    /\ sg_id \in Groups
    /\ SshPortOpen(fw0[sg_id])
    /\ \E i \in 1..Len(calls) : calls[i].op = "revoke" /\ calls[i].ok
    /\ exit_code = "1"
    /\ ~synced

(* ------------------------------------------------------------------ *)
(* C5  Fatal on read failure                                           *)
(* ------------------------------------------------------------------ *)

\* C5: if the read of the group's rules fails, the run ends with status 1
\* having made no mutation call, written no configuration and run no git
\* command; the groups and the file are as the run found them.
C5_ReadFailure ==
    StepFailed("describe") =>
        /\ pc = "exited"
        /\ exit_code = "1"
        /\ calls = <<>>
        /\ fw = fw0
        /\ yamlFile = yaml0
        /\ \A name \in MutationSteps \cup GitSteps \cup {"load_yaml", "save_yaml"} :
              ~Attempted(name)

C5_Witness == StepFailed("describe") /\ pc = "exited" /\ ~SshPortOpen(fw[sg_id])

(* ------------------------------------------------------------------ *)
(* C6  Abort at the point of mutation failure                          *)
(* ------------------------------------------------------------------ *)

\* C6: a mutation call that fails is the last call and the last step of its
\* run, which ends with status 1; the file is not written and git is not
\* run; the group holds exactly what the calls that succeeded made of it.
C6_AbortAtFailure ==
    \A i \in 1..Len(calls) :
        ~calls[i].ok =>
            /\ i = Len(calls)
            /\ pc = "exited"
            /\ exit_code = "1"
            /\ steps[Len(steps)].step \in MutationSteps
            /\ ~steps[Len(steps)].ok
            /\ yamlFile = yaml0
            /\ \A name \in GitSteps \cup {"load_yaml", "save_yaml"} : ~Attempted(name)
            /\ fw[sg_id] = ApplyCalls(fw0[sg_id], calls)
            /\ \A g \in Groups \ {sg_id} : fw[g] = fw0[g]

\* The third call failed after two that changed the group.
C6_Witness ==
    /\ Len(calls) = 3
    /\ calls[1].ok /\ calls[2].ok /\ ~calls[3].ok
    /\ fw[sg_id][<<"tcp", SSH_PORT>>] # fw0[sg_id][<<"tcp", SSH_PORT>>]
    /\ fw[sg_id][<<"tcp", HTTP_PORT>>] # fw0[sg_id][<<"tcp", HTTP_PORT>>]
    /\ pc = "exited"

(* ------------------------------------------------------------------ *)
(* C7  Tolerated duplicate / not-found answers                         *)
(* ------------------------------------------------------------------ *)

Tolerable == {"InvalidPermission.Duplicate", "InvalidPermission.NotFound"}

\* C7: a call the provider answers with "already exists" or "not found"
\* does not abort the run: it is never the step an aborted run ended on.
C7_Tolerated ==
    \A i \in 1..Len(calls) :
        calls[i].err \in Tolerable =>
            ~(i = Len(calls) /\ pc = "exited" /\ exit_code = "1" /\ ~synced)

(* ------------------------------------------------------------------ *)
(* C8  Minimal mutation count                                          *)
(* ------------------------------------------------------------------ *)

\* C8: a run makes at most three mutation calls: at most one SSH add, one
\* HTTP revoke and one HTTP authorize, however many CIDRs they carry.
C8_MinimalCalls ==
    /\ Len(calls) <= 3
    /\ Count(IsSshAdd) <= 1
    /\ Count(IsHttpRevoke) <= 1
    /\ Count(IsHttpAuthorize) <= 1
    /\ \A i \in 1..Len(calls) :
          IsSshAdd(calls[i]) \/ IsHttpRevoke(calls[i]) \/ IsHttpAuthorize(calls[i])

\* All three calls made, one of them for several CIDRs at once.
C8_Witness ==
    /\ Len(calls) = 3
    /\ synced
    /\ \E i \in 1..3 : Cardinality(calls[i].cidrs) >= 3

(* ------------------------------------------------------------------ *)
(* C9  Unrelated rules are framed out                                  *)
(* ------------------------------------------------------------------ *)

\* C9: every call names tcp/22 (authorizing 0.0.0.0/0 only) or tcp/80; the
\* rules on other ports, and the other groups, are as the run found them; no
\* CIDR is authorized that the rules read show on the HTTP port already.
C9_Frame ==
    /\ \A i \in 1..Len(calls) :
          /\ calls[i].key \in {<<"tcp", SSH_PORT>>, <<"tcp", HTTP_PORT>>}
          /\ calls[i].key[2] = SSH_PORT =>
                (calls[i].op = "authorize" /\ calls[i].cidrs = {ALL_ADDRESSES})
          /\ IsHttpAuthorize(calls[i]) =>
                calls[i].cidrs \cap CurrentHttpCidrs(current_permissions) = {}
    /\ \A g \in Groups, k \in Keys :
          k[2] \notin {SSH_PORT, HTTP_PORT} => fw[g][k] = fw0[g][k]
    /\ \A g \in Groups : g # sg_id => fw[g] = fw0[g]

\* A run that added SSH and authorized on HTTP while a desired CIDR was
\* already there and another port had a rule.
C9_Witness ==
    /\ synced
    /\ \E i \in 1..Len(calls) : IsSshAdd(calls[i])
    /\ \E i \in 1..Len(calls) : IsHttpAuthorize(calls[i])
    /\ CurrentHttpCidrs(current_permissions) \cap Desired # {}
    /\ \E k \in Keys : k[2] \notin {SSH_PORT, HTTP_PORT} /\ fw0[sg_id][k] # {}

(* ------------------------------------------------------------------ *)
(* C10  Git failure is non-fatal                                       *)
(* ------------------------------------------------------------------ *)

\* C10: a run whose reconciliation and configuration write succeeded and in
\* which a git command failed ends with status 0, the group and the written
\* file untouched by the failure.
C10_GitNonFatal ==
    (pc = "exited" /\ \E name \in GitSteps : StepFailed(name)) =>
        /\ exit_code = "0"
        /\ fw[sg_id] = ApplyCalls(fw0[sg_id], calls)
        /\ yamlFile = [exists |-> TRUE, doc |-> config]

(* ------------------------------------------------------------------ *)
(* C11  Desired-state fetch failure                                    *)
(* ------------------------------------------------------------------ *)

FetchSteps == {"get_current_ip", "get_cloudflare_ips"}

\* C11: if the fetch of the home address or of the CDN ranges fails, the
\* run ends there with status 1: no group is looked up or read, no mutation
\* call is made, the file is not written and git is not run.
C11_FetchFailure ==
    (\E name \in FetchSteps : StepFailed(name)) =>
        /\ pc = "exited"
        /\ exit_code = "1"
        /\ steps[Len(steps)].step \in FetchSteps
        /\ sg_id = NONE
        /\ calls = <<>>
        /\ fw = fw0
        /\ yamlFile = yaml0

\* The range fetch failed while the group held HTTP CIDRs.
C11_Witness ==
    /\ StepFailed("get_cloudflare_ips")
    /\ pc = "exited"
    /\ fw["sg-1"][<<"tcp", HTTP_PORT>>] # {}

(* ------------------------------------------------------------------ *)
(* C12  Group resolution                                               *)
(* ------------------------------------------------------------------ *)

StepOk(name) == \E i \in 1..Len(steps) : steps[i].step = name /\ steps[i].ok

\* The run found no group: a lookup raised, or both answers were empty.
NoGroupFound ==
    \/ StepFailed("find_by_name")
    \/ StepFailed("find_by_ssh_rule")
    \/ StepOk("find_by_ssh_rule") /\ rule_response = <<>>

\* C12: the group is the first of the name lookup's answer if that answer
\* is not empty; the fallback lookup is made only after an empty answer of
\* the name lookup, and the group then is the first of the fallback's
\* answer; when a lookup raises or both answers are empty the run ends with
\* status 1 without reading or changing any group.
C12_GroupResolution ==
    /\ Attempted("find_by_ssh_rule") => (StepOk("find_by_name") /\ name_response = <<>>)
    /\ name_response # <<>> =>
          (sg_id = name_response[1] /\ ~Attempted("find_by_ssh_rule"))
    /\ rule_response # <<>> => sg_id = rule_response[1]
    /\ sg_id # NONE => (name_response # <<>> \/ rule_response # <<>>)
    /\ StepOk("find_by_name") => ToSet(name_response) = named
    /\ NoGroupFound =>
          /\ pc = "exited"
          /\ exit_code = "1"
          /\ sg_id = NONE
          /\ ~Attempted("describe")
          /\ calls = <<>>
          /\ fw = fw0

\* The fallback lookup answered with two groups and the run went on to
\* change the first of them.
C12_Witness ==
    /\ name_response = <<>>
    /\ Len(rule_response) = 2
    /\ sg_id = rule_response[1]
    /\ \E i \in 1..Len(calls) : calls[i].ok

(* ------------------------------------------------------------------ *)
(* C13  Persisted configuration                                        *)
(* ------------------------------------------------------------------ *)

\* C13: the file is written only once update_security_group has returned
\* True; the document written has rules.http equal to the home address
\* united with the CDN ranges, without duplicates and in ascending order,
\* rules.ssh equal to [0.0.0.0/0] if the key was absent and as it was
\* otherwise, and its other key as it was.
C13_PersistedConfig ==
    /\ Attempted("save_yaml") => synced
    /\ yamlFile # yaml0 => StepOk("save_yaml")
    /\ StepOk("save_yaml") =>
          LET doc == yamlFile.doc
          IN /\ yamlFile.exists
             /\ doc.hasRules
             /\ ToSet(doc.http) = {home_ip} \cup ToSet(cf_ips)
             /\ Len(doc.http) = Cardinality(ToSet(doc.http))
             /\ \A i, j \in 1..Len(doc.http) : i < j => StrLess(doc.http[i], doc.http[j])
             /\ doc.hasSsh
             /\ doc.ssh = IF yaml0.doc.hasSsh THEN yaml0.doc.ssh ELSE <<ALL_ADDRESSES>>
             /\ doc.name = yaml0.doc.name

\* The hand-edited document rewritten from a padded, repeated, unordered
\* range list: three entries in order, rules.ssh and name kept.
C13_Witness ==
    /\ StepOk("save_yaml")
    /\ yaml0.doc = EditedDoc
    /\ yamlFile.doc.http = <<"103.21.244.0/22", "173.245.48.0/20", "198.51.100.7/32">>
    /\ yamlFile.doc.ssh = <<NARROW>>
    /\ yamlFile.doc.name = "edited"

(* ------------------------------------------------------------------ *)
(* C14  Strict step ordering                                           *)
(* ------------------------------------------------------------------ *)

\* The order the claim gives the steps (with the two group lookups and the
\* load of the file at the places main() has them).
StepOrder ==
    <<"get_current_ip", "get_cloudflare_ips", "find_by_name", "find_by_ssh_rule",
      "describe", "ssh_add", "http_revoke", "http_authorize", "load_yaml",
      "save_yaml", "git_status", "git_pull", "git_add", "git_commit", "git_push">>

StepRanks == [name \in ToSet(StepOrder) |-> CHOOSE i \in 1..Len(StepOrder) : StepOrder[i] = name]

StepRank(name) == StepRanks[name]

\* C14: the steps of a run occur in the one order resolve, read, SSH add,
\* HTTP revoke, HTTP authorize, write, commit and push, each at most once,
\* and a step is started only when every step before it in the run has
\* succeeded (each step ranks above its predecessor, which succeeded); the
\* mutation calls are the mutation steps, the revoke before the authorize.
C14_StepOrder ==
    /\ \A i \in 1..Len(steps) - 1 :
          /\ StepRank(steps[i].step) < StepRank(steps[i + 1].step)
          /\ steps[i].ok
    /\ \A i, j \in 1..Len(calls) :
          (IsHttpRevoke(calls[i]) /\ IsHttpAuthorize(calls[j])) => i < j
    /\ Len(calls) = Cardinality({i \in 1..Len(steps) : steps[i].step \in MutationSteps})

\* A run that made all three calls, wrote the file and pushed.
C14_Witness ==
    /\ Len(calls) = 3
    /\ StepOk("git_push")
    /\ exit_code = "0"

(* ------------------------------------------------------------------ *)
(* C15  When the configuration is read and written                     *)
(* ------------------------------------------------------------------ *)

\* C15 as claimed: the file is read before the reconciliation, so that the
\* group's rules are read, and mutation calls made, only in runs that found
\* the file.
C15_ReadBeforeReconcile ==
    /\ Attempted("describe") => StepOk("load_yaml")
    /\ calls # <<>> => yaml0.exists

\* C15 as amended: the file is read only after update_security_group has
\* returned True and written only after that read; a missing file (or a
\* document without rules) ends the run with status 1 at the read, with the
\* mutation calls of the run made and left in place and nothing written or
\* committed.
C15_ReadAfterReconcile ==
    /\ Attempted("load_yaml") => (synced /\ \A i \in 1..Len(calls) : calls[i].ok)
    /\ Attempted("save_yaml") => StepOk("load_yaml")
    /\ (Attempted("load_yaml") /\ ~(yaml0.exists /\ yaml0.doc.hasRules)) =>
          StepFailed("load_yaml")
    /\ StepFailed("load_yaml") =>
          /\ ~(yaml0.exists /\ yaml0.doc.hasRules)
          /\ pc = "exited"
          /\ exit_code = "1"
          /\ yamlFile = yaml0
          /\ fw[sg_id] = ApplyCalls(fw0[sg_id], calls)
          /\ \A name \in GitSteps \cup {"save_yaml"} : ~Attempted(name)

\* The file was missing and the run ended at the read after three calls
\* that changed the group.
C15_Witness ==
    /\ ~yaml0.exists
    /\ StepFailed("load_yaml")
    /\ Len(calls) = 3
    /\ fw[sg_id] # fw0[sg_id]

(* ------------------------------------------------------------------ *)
(* C16  Diff correctness                                               *)
(* ------------------------------------------------------------------ *)

\* The HTTP-port CIDR set the run read.
ReadHttp == CurrentHttpCidrs(current_permissions)

\* C16: the set read is the HTTP-port set the group had when the run
\* started; the revoke call carries exactly what was read and is not
\* desired, the authorize call exactly what is desired and was not read;
\* the two are disjoint and never empty, and a run whose calls all
\* succeeded made each call if and only if its set is not empty.
C16_DiffCorrectness ==
    /\ ReadDone => ReadHttp = HttpPortCidrs(fw0[sg_id])
    /\ \A i \in 1..Len(calls) :
          /\ IsHttpRevoke(calls[i]) =>
                (calls[i].cidrs = ReadHttp \ Desired /\ calls[i].cidrs # {})
          /\ IsHttpAuthorize(calls[i]) =>
                (calls[i].cidrs = Desired \ ReadHttp /\ calls[i].cidrs # {})
    /\ \A i, j \in 1..Len(calls) :
          (IsHttpRevoke(calls[i]) /\ IsHttpAuthorize(calls[j])) =>
              calls[i].cidrs \cap calls[j].cidrs = {}
    /\ synced =>
          /\ (\E i \in 1..Len(calls) : IsHttpRevoke(calls[i])) <=> (ReadHttp \ Desired # {})
          /\ (\E i \in 1..Len(calls) : IsHttpAuthorize(calls[i])) <=> (Desired \ ReadHttp # {})

\* The spec's example: one CIDR revoked, one kept, others authorized.
C16_Witness ==
    /\ synced
    /\ ReadHttp = {STALE, HOME1}
    /\ \E i \in 1..Len(calls) : IsHttpRevoke(calls[i]) /\ calls[i].cidrs = {STALE}
    /\ \E i \in 1..Len(calls) :
          IsHttpAuthorize(calls[i]) /\ calls[i].cidrs = {"103.21.244.0/22", RANGE1}

(* ------------------------------------------------------------------ *)
(* C17  SSH check                                                      *)
(* ------------------------------------------------------------------ *)

\* Some entry on the SSH port, of the rules read, lists 0.0.0.0/0.
ReadSshAll ==
    \E perm \in current_permissions :
        perm.FromPort = 22 /\ perm.ToPort = 22 /\ "0.0.0.0/0" \in perm.IpRanges

SshAddEmitted == \E i \in 1..Len(calls) : IsSshAdd(calls[i])

\* C17: the run emits the SSH add, one call for tcp/22 and 0.0.0.0/0, if
\* and only if no SSH-port entry it read lists 0.0.0.0/0; the other CIDRs
\* on the SSH port stay as they were, and once the SSH step is behind the
\* run without a failure an SSH-port entry of the group lists 0.0.0.0/0.
C17_SshCheck ==
    /\ pc = "ssh_add" => (ReadDone /\ ~ReadSshAll /\ ~SshAddEmitted)
    /\ (ReadDone /\ pc # "ssh_add") => (SshAddEmitted <=> ~ReadSshAll)
    /\ ~ReadDone => ~SshAddEmitted
    /\ Count(IsSshAdd) <= 1
    /\ \A i \in 1..Len(calls) :
          IsSshAdd(calls[i]) =>
              (calls[i].key = <<"tcp", 22>> /\ calls[i].cidrs = {"0.0.0.0/0"})
    /\ sg_id \in Groups =>
          /\ fw[sg_id][<<"udp", 22>>] = fw0[sg_id][<<"udp", 22>>]
          /\ fw[sg_id][<<"tcp", 22>>] \ {"0.0.0.0/0"} = fw0[sg_id][<<"tcp", 22>>] \ {"0.0.0.0/0"}
          /\ fw0[sg_id][<<"tcp", 22>>] \subseteq fw[sg_id][<<"tcp", 22>>]
    /\ (ReadDone /\ pc # "ssh_add" /\ ~StepFailed("ssh_add")) =>
          \E proto \in Protocols : "0.0.0.0/0" \in fw[sg_id][<<proto, 22>>]

\* A narrower SSH entry did not suppress the add and is still there.
C17_Witness ==
    /\ sg_id \in Groups
    /\ fw0[sg_id][<<"tcp", 22>>] = {NARROW}
    /\ StepOk("ssh_add")
    /\ fw[sg_id][<<"tcp", 22>>] = {NARROW, "0.0.0.0/0"}

(* ------------------------------------------------------------------ *)
(* C18  Success implies convergence                                    *)
(* ------------------------------------------------------------------ *)

\* C18: a run that ended with exit code 0 left the group's HTTP-port CIDR
\* set (every permission on port 80, or the tcp/80 rule alone) equal to
\* the desired set of the run, an SSH-port entry listing 0.0.0.0/0 and
\* the document's rules.http equal to the desired set; and no step of
\* that run before the Git steps failed.
C18_SuccessConverged ==
    (pc = "exited" /\ exit_code = "0") =>
        /\ \/ HttpPortCidrs(fw[sg_id]) = Desired
           \/ fw[sg_id][HttpRule] = Desired
        /\ SshPortOpen(fw[sg_id])
        /\ yamlFile.exists
        /\ ToSet(yamlFile.doc.http) = Desired
        /\ \A i \in 1..Len(steps) : steps[i].step \notin GitSteps => steps[i].ok

(* ------------------------------------------------------------------ *)
(* C19  Bounded intermediate states                                    *)
(* ------------------------------------------------------------------ *)

\* C19: in every state of a run the group's HTTP-port CIDR set, read over
\* every permission on port 80 or over the tcp/80 rule alone, contains
\* every CIDR that was there when the run started and is desired, and
\* holds nothing but what was there at the start or is desired.
C19_BoundedIntermediate ==
    sg_id \in Groups =>
        LET start == HttpPortCidrs(fw0[sg_id])
            now == HttpPortCidrs(fw[sg_id])
            startTcp == fw0[sg_id][<<"tcp", 80>>]
            nowTcp == fw[sg_id][<<"tcp", 80>>]
        IN /\ (start \cap Desired) \subseteq now
           /\ now \subseteq (start \cup Desired)
           /\ (startTcp \cap Desired) \subseteq nowTcp
           /\ nowTcp \subseteq (startTcp \cup Desired)

\* The run aborted between the revoke and the authorize call, and a CIDR
\* that was present and is desired is still there.
C19_Witness ==
    /\ sg_id \in Groups
    /\ StepOk("http_revoke")
    /\ StepFailed("http_authorize")
    /\ fw[sg_id] # fw0[sg_id]
    /\ HOME1 \in fw0[sg_id][<<"tcp", 80>>] \cap Desired
    /\ HOME1 \in fw[sg_id][<<"tcp", 80>>]

====
